---- MODULE Spec2Model ----
(***************************************************************************)
(* Comparative analysis engine of News_Analyzer                            *)
(* (src/communication/utils.py: compare_articles,                          *)
(* generate_impact_analysis, get_overall_sentiment,                        *)
(* generate_final_sentiment_text).                                         *)
(*                                                                         *)
(* Python values are encoded as follows.  A dictionary key that is absent  *)
(* is the marker NoKey, the value None is the marker NoneV, a topic that   *)
(* is not a string is the marker NonStr.  An article record is             *)
(*   [ismap, title, sent, label, tkind, topics]                            *)
(* ismap  : the record is a mapping (has .get)                             *)
(* title  : the title string, or NoKey                                     *)
(* sent   : "absent" (no 'sentiment' key), "notmap" (the value has no      *)
(*          .get, e.g. None or a string), "map"                            *)
(* label  : for sent = "map" the 'label' value, NoKey or NoneV             *)
(* tkind  : "absent" (no 'topics' key), "notiter" (not iterable), "list"   *)
(* topics : for tkind = "list" the sequence of topics                      *)
(* A call that can raise returns [raised, value]; raised = TRUE means the  *)
(* exception leaves the function.                                          *)
(***************************************************************************)
EXTENDS Integers, Sequences, FiniteSets, TLC

\* ------------------------------------------------------------------ bounds
MaxArticles == 5
MaxRich == 2
MaxTopicArticles == 7
MaxCount == 8
MaxSets == 40
MaxTitled == 2
MaxText == 4
MaxCalls == 3
MaxWorkers == 2

\* ---------------------------------------------------------------- encoding
NoKey == "<absent>"
NoneV == "<None>"
NonStr == "<7>"

Min(a, b) == IF a <= b THEN a ELSE b
Max(a, b) == IF a >= b THEN a ELSE b

SetOf(s) == {s[k] : k \in DOMAIN s}

\* articles[i] with Python's 0-based index
At(articles, i) == articles[i + 1]

\* list(some_set): the iteration order of a set of strings is fixed by the
\* process's string hashing; seed lists the topics in that order.
ListOf(S, seed) == SelectSeq(seed, LAMBDA t : t \in S)

\* a.get('sentiment', {}).get('label')
get_label(a) ==
  IF a.sent = "absent" \/ a.label = NoKey THEN NoneV ELSE a.label

\* a.get('sentiment', {}).get('label', 'Unknown')
get_label_default(a) ==
  IF a.sent = "absent" \/ a.label = NoKey THEN "Unknown" ELSE a.label

\* both .get chains raise AttributeError on these records
label_raises(a) == ~a.ismap \/ a.sent = "notmap"

\* str(x) inside an f-string
Fmt(x) == IF x = NoneV THEN "None" ELSE x

\* str.lower() on the label strings
Lower(l) ==
  CASE l = "Positive" -> "positive"
    [] l = "Negative" -> "negative"
    [] l = "Neutral"  -> "neutral"
    [] l = "Unknown"  -> "unknown"
    [] OTHER          -> l

\* ', '.join(topics)
RECURSIVE Join(_)
Join(topics) ==
  IF topics = <<>> THEN ""
  ELSE IF Len(topics) = 1 THEN topics[1]
  ELSE topics[1] \o ", " \o Join(Tail(topics))

\* ------------------------------------------------ generate_impact_analysis
ImpactSimilar ==
  "Both articles share similar sentiment, reinforcing the same perception."
ImpactUncertainty ==
  "The conflicting sentiment between these articles may create market uncertainty. Investors might need to evaluate both perspectives before making decisions."
ImpactComplex ==
  "The contrasting views present a complex picture. This divergence suggests the company's situation has multiple interpretations."
ImpactCounterbalance(other) ==
  "The " \o Lower(other) \o " sentiment in one article is counterbalanced by a neutral perspective in the other."
ImpactDifferent ==
  "The articles present different aspects of the company's situation."
ImpactNotAvailable == "Impact analysis not available."

\* variant: the Positive/Negative test ignores the order of the articles
generate_impact_analysis_Unordered(article1, article2) ==
  IF label_raises(article1) \/ label_raises(article2) THEN ImpactNotAvailable
  ELSE
    LET sentiment1 == get_label_default(article1)
        sentiment2 == get_label_default(article2)
        other == IF sentiment2 = "Neutral" THEN sentiment1 ELSE sentiment2
    IN IF sentiment1 = sentiment2 THEN ImpactSimilar
       ELSE IF {sentiment1, sentiment2} = {"Positive", "Negative"}
         THEN ImpactUncertainty
       ELSE IF "Neutral" \in {sentiment1, sentiment2}
         THEN IF other = NoneV THEN ImpactNotAvailable
              ELSE ImpactCounterbalance(other)
       ELSE ImpactDifferent

generate_impact_analysis(article1, article2) ==
  IF label_raises(article1) \/ label_raises(article2) THEN ImpactNotAvailable
  ELSE
    LET sentiment1 == get_label_default(article1)
        sentiment2 == get_label_default(article2)
        other == IF sentiment2 = "Neutral" THEN sentiment1 ELSE sentiment2
    IN IF sentiment1 = sentiment2 THEN ImpactSimilar
       ELSE IF sentiment1 = "Positive" /\ sentiment2 = "Negative"
         THEN ImpactUncertainty
       ELSE IF sentiment1 = "Negative" /\ sentiment2 = "Positive"
         THEN ImpactComplex
       ELSE IF "Neutral" \in {sentiment1, sentiment2}
         THEN IF other = NoneV THEN ImpactNotAvailable
              ELSE ImpactCounterbalance(other)
       ELSE ImpactDifferent

\* -------------------------------------------------------- compare_articles
Default ==
  [SentimentDistribution |-> [Positive |-> 0, Negative |-> 0, Neutral |-> 0],
   CoverageDifferences |-> <<>>,
   CommonTopics |-> <<>>,
   UniqueTopics |-> <<>>]

\* variant: a missing label is counted as Neutral
CountLabel_DefaultNeutral(articles, key) ==
  Cardinality({i \in DOMAIN articles :
                 \/ get_label(articles[i]) = key
                 \/ key = "Neutral" /\ get_label(articles[i]) = NoneV})

\* sum(1 for a in articles if a.get('sentiment', {}).get('label') == key)
CountLabel(articles, key) ==
  Cardinality({i \in DOMAIN articles : get_label(articles[i]) = key})

\* variant: only the articles with a 'topics' field are counted
sentiment_distribution_TopicBearing(articles) ==
  LET bearing == SelectSeq(articles, LAMBDA a : a.tkind /= "absent")
  IN [Positive |-> CountLabel(bearing, "Positive"),
      Negative |-> CountLabel(bearing, "Negative"),
      Neutral  |-> CountLabel(bearing, "Neutral")]

sentiment_distribution(articles) ==
  [Positive |-> CountLabel(articles, "Positive"),
   Negative |-> CountLabel(articles, "Negative"),
   Neutral  |-> CountLabel(articles, "Neutral")]

\* variant: every article contributes a topic set
TopicBearing_All(articles) == articles

\* [set(a.get('topics', [])) for a in articles if 'topics' in a]
TopicBearing(articles) == SelectSeq(articles, LAMBDA a : a.tkind /= "absent")

all_topics(articles) ==
  [k \in DOMAIN TopicBearing(articles) |-> SetOf(TopicBearing(articles)[k].topics)]

\* set.intersection(*all_topics) if all_topics else set()
StrictIntersection(sets) ==
  IF sets = <<>> THEN {}
  ELSE {t \in sets[1] : \A k \in DOMAIN sets : t \in sets[k]}

topic_counts(sets, topic) == Cardinality({k \in DOMAIN sets : topic \in sets[k]})

\* variant: the 30% share truncated to an integer
Threshold10_Truncated(n) == 10 * Max(2, (3 * n) \div 10)

\* threshold = max(2, len(all_topics) * 0.3), kept in tenths.  The double
\* 0.3 * n is at most 3n/10 and rounds to exactly k when 3n/10 is an integer
\* k, so comparing an integer count with it is the exact comparison.
Threshold10(n) == Max(20, 3 * n)

\* variant: one occurrence is enough
MeetsThreshold_Once(count, n) == count >= 1

\* count >= threshold
MeetsThreshold(count, n) == 10 * count >= Threshold10(n)

common_topics(sets) ==
  LET strict == StrictIntersection(sets)
  IN IF strict = {} /\ sets /= <<>>
       THEN {t \in UNION SetOf(sets) : MeetsThreshold(topic_counts(sets, t), Len(sets))}
       ELSE strict

\* variant: a look-ahead window of 3
WindowEnd_Three(i, n) == Min(i + 4, n)

\* min(i+3, len(articles)): the end of range(i+1, ...)
WindowEnd(i, n) == Min(i + 3, n)

\* the (i, j) of the two nested loops, in loop order
RECURSIVE WindowPairs(_, _)
WindowPairs(i, n) ==
  IF i >= n THEN <<>>
  ELSE [k \in 1..(WindowEnd(i, n) - (i + 1)) |-> <<i, i + k>>] \o WindowPairs(i + 1, n)

\* the test of line 361
LabelsDiffer(a, b) == get_label(a) /= get_label(b)

DivergentPairs(articles) ==
  SelectSeq(WindowPairs(0, Len(articles)),
            LAMBDA p : LabelsDiffer(At(articles, p[1]), At(articles, p[2])))

\* a.get('topics', [])[:3]
Top3(a) == IF a.tkind = "absent" THEN <<>> ELSE SubSeq(a.topics, 1, Min(3, Len(a.topics)))

\* variant: the positional title uses the 0-based index
ArticleTitle_ZeroBased(a, i) ==
  IF a.title = NoKey THEN "Article " \o ToString(i) ELSE a.title

ArticleTitle(a, i) == IF a.title = NoKey THEN "Article " \o ToString(i + 1) ELSE a.title

Describe(a, i) ==
  "Article '" \o ArticleTitle(a, i) \o "' has " \o Fmt(get_label_default(a))
    \o " sentiment about "
    \o (IF Top3(a) /= <<>> THEN Join(Top3(a)) ELSE "the subject")

ComparisonText(articles, i, j) ==
  Describe(At(articles, i), i) \o ", while " \o Describe(At(articles, j), j) \o "."

CoverageEntry(articles, p) ==
  [Comparison |-> ComparisonText(articles, p[1], p[2]),
   Impact |-> generate_impact_analysis(At(articles, p[1]), At(articles, p[2]))]

\* variant: no cut
LimitDifferences_NoCut(cd) == cd

\* coverage_differences[:5]
LimitDifferences(cd) == SubSeq(cd, 1, Min(5, Len(cd)))

\* variant: the common topics are not removed
UniqueOf_Whole(topic_set, common) == topic_set

\* topic_set - common_topics
UniqueOf(topic_set, common) == topic_set \ common

\* ', '.join raises TypeError on a topic that is not a string
join_raises(a) == NonStr \in SetOf(Top3(a))

\* the exceptions of the try block, in the order the statements run
body_raises(articles) ==
  \/ \E i \in DOMAIN articles : label_raises(articles[i])
  \/ \E i \in DOMAIN articles : articles[i].tkind = "notiter"
  \/ \E k \in DOMAIN DivergentPairs(articles) :
       LET p == DivergentPairs(articles)[k]
       IN join_raises(At(articles, p[1])) \/ join_raises(At(articles, p[2]))

compare_body(articles, seed) ==
  IF body_raises(articles)
    THEN [raised |-> TRUE, value |-> Default, pairs |-> <<>>]
    ELSE
      LET sets == all_topics(articles)
          common == common_topics(sets)
          dp == DivergentPairs(articles)
          cd == [k \in DOMAIN dp |-> CoverageEntry(articles, dp[k])]
      IN [raised |-> FALSE,
          value |->
            [SentimentDistribution |-> sentiment_distribution(articles),
             CoverageDifferences |-> LimitDifferences(cd),
             CommonTopics |-> ListOf(common, seed),
             UniqueTopics |-> [k \in DOMAIN sets |-> ListOf(UniqueOf(sets[k], common), seed)]],
          pairs |-> LimitDifferences(dp)]

\* variant: no except clause, the exception leaves the function
CatchDefault_Propagate(r) == r

\* except Exception: log and return the default structure
CatchDefault(r) ==
  IF r.raised THEN [raised |-> FALSE, value |-> Default, pairs |-> <<>>] ELSE r

\* batch = [none, items]: none is the argument None
compare_articles(batch, seed) ==
  IF batch.none \/ batch.items = <<>>
    THEN [raised |-> FALSE, value |-> Default, pairs |-> <<>>]
    ELSE CatchDefault(compare_body(batch.items, seed))

\* --------------------------------------------------- get_overall_sentiment
(***************************************************************************)
(* analysis_data is [kind, truthy, dist, Positive, Negative, Neutral,      *)
(* Other]: kind is "None", "nonmap" (no .get) or "map"; truthy is its      *)
(* truth value (an empty mapping is falsy); dist is the 'Sentiment         *)
(* Distribution' entry: "absent", "notmap" (no .values()), "nonnumeric"    *)
(* (sum raises TypeError) or "counts", with the counts of the three labels *)
(* and the sum of the values under any other key.                          *)
(***************************************************************************)
\* analysis_data.get(...) raises AttributeError; so do .values() and sum()
dist_raises(ad) == ad.kind /= "map" \/ ad.dist \in {"notmap", "nonnumeric"}

\* sum(sentiment_dist.values())
Total(ad) ==
  IF ad.dist = "absent" THEN 0
  ELSE ad.Positive + ad.Negative + ad.Neutral + ad.Other

\* variant: the thresholds are inclusive
RatioAbove_Inclusive(count, total, tenths) == 10 * count >= tenths * total

\* sentiment_dist.get(key, 0) / total > tenths / 10
RatioAbove(count, total, tenths) == 10 * count > tenths * total

\* variant: the final else returns "Neutral"
Classify_NeutralElse(ad) ==
  LET total == Total(ad)
  IN IF RatioAbove(ad.Positive, total, 6) THEN "Very Positive"
     ELSE IF RatioAbove(ad.Positive, total, 4) THEN "Moderately Positive"
     ELSE IF RatioAbove(ad.Negative, total, 6) THEN "Very Negative"
     ELSE IF RatioAbove(ad.Negative, total, 4) THEN "Moderately Negative"
     ELSE "Neutral"

\* variant: the negative branches are tested before the positive ones
Classify_NegativeFirst(ad) ==
  LET total == Total(ad)
  IN IF RatioAbove(ad.Negative, total, 6) THEN "Very Negative"
     ELSE IF RatioAbove(ad.Negative, total, 4) THEN "Moderately Negative"
     ELSE IF RatioAbove(ad.Positive, total, 6) THEN "Very Positive"
     ELSE IF RatioAbove(ad.Positive, total, 4) THEN "Moderately Positive"
     ELSE "Mixed or Neutral"

Classify(ad) ==
  LET total == Total(ad)
  IN IF RatioAbove(ad.Positive, total, 6) THEN "Very Positive"
     ELSE IF RatioAbove(ad.Positive, total, 4) THEN "Moderately Positive"
     ELSE IF RatioAbove(ad.Negative, total, 6) THEN "Very Negative"
     ELSE IF RatioAbove(ad.Negative, total, 4) THEN "Moderately Negative"
     ELSE "Mixed or Neutral"

overall_body(ad) ==
  IF dist_raises(ad) THEN [raised |-> TRUE, value |-> ""]
  ELSE IF Total(ad) = 0 THEN [raised |-> FALSE, value |-> "Neutral"]
  ELSE [raised |-> FALSE, value |-> Classify(ad)]

\* variant: no except clause, the exception leaves the function
CatchNeutral_Propagate(r) == r

\* except Exception: log and return "Neutral"
CatchNeutral(r) == IF r.raised THEN [raised |-> FALSE, value |-> "Neutral"] ELSE r

\* the truth test of line 433
NotData(ad) == ad.kind = "None" \/ ~ad.truthy

get_overall_sentiment(ad) ==
  IF NotData(ad) THEN [raised |-> FALSE, value |-> "Neutral"]
  ELSE CatchNeutral(overall_body(ad))

\* ------------------------------------------- generate_final_sentiment_text
TextNoData(company) ==
  "No reliable sentiment data available for " \o company \o "."
TextVeryPositive(company) ==
  company \o "'s latest news coverage is overwhelmingly positive. The company is receiving favorable attention which may indicate strong performance."
TextModeratelyPositive(company) ==
  company \o "'s recent news coverage leans positive. The company appears to be performing well despite some challenges."
TextVeryNegative(company) ==
  company \o "'s latest news coverage is predominantly negative. The company may be facing significant challenges that could impact its performance."
TextModeratelyNegative(company) ==
  company \o "'s recent news coverage tends to be negative. The company appears to be facing some challenges that warrant attention."
TextMixed(company) ==
  company \o "'s recent news coverage shows mixed sentiment. The company has both positive developments and challenges to navigate."
TextInconclusive(company) ==
  "Analysis of " \o company \o "'s recent news coverage is inconclusive."

\* the if/elif chain of lines 474-488
VerdictTemplate(company, verdict) ==
  IF verdict = "Very Positive" THEN TextVeryPositive(company)
  ELSE IF verdict = "Moderately Positive" THEN TextModeratelyPositive(company)
  ELSE IF verdict = "Very Negative" THEN TextVeryNegative(company)
  ELSE IF verdict = "Moderately Negative" THEN TextModeratelyNegative(company)
  ELSE TextMixed(company)

\* variant: no test of total == 0 before the verdict templates
final_body_NoZeroCase(company, ad, verdict) ==
  IF dist_raises(ad) THEN [raised |-> TRUE, value |-> ""]
  ELSE [raised |-> FALSE, value |-> VerdictTemplate(company, verdict)]

final_body(company, ad, verdict) ==
  IF dist_raises(ad) THEN [raised |-> TRUE, value |-> ""]
  ELSE IF Total(ad) = 0 THEN [raised |-> FALSE, value |-> TextNoData(company)]
  ELSE [raised |-> FALSE, value |-> VerdictTemplate(company, verdict)]

\* except Exception: log and return the inconclusive text
CatchInconclusive(company, r) ==
  IF r.raised THEN [raised |-> FALSE, value |-> TextInconclusive(company)] ELSE r

generate_final_sentiment_text(company, ad) ==
  LET o == get_overall_sentiment(ad)
  IN IF o.raised THEN o
     ELSE CatchInconclusive(company, final_body(company, ad, o.value))

\* ------------------------------------------------------------------ inputs
Art(ismap, title, sent, label, tkind, topics) ==
  [ismap |-> ismap, title |-> title, sent |-> sent, label |-> label,
   tkind |-> tkind, topics |-> topics]

\* a record that is not a mapping (a string, a number, None)
NotARecord == Art(FALSE, NoKey, "absent", NoKey, "absent", <<>>)

Sentiments ==
  {<<"absent", NoKey>>, <<"notmap", NoKey>>, <<"map", NoKey>>, <<"map", NoneV>>,
   <<"map", "Positive">>, <<"map", "Negative">>, <<"map", "Neutral">>,
   <<"map", "Unknown">>}

TopicValues ==
  {<<"absent", <<>>>>, <<"notiter", <<>>>>, <<"list", <<>>>>, <<"list", <<"A">>>>,
   <<"list", <<"A", "B">>>>, <<"list", <<NonStr>>>>}

RichUniverse ==
  {Art(TRUE, NoKey, s[1], s[2], t[1], t[2]) : s \in Sentiments, t \in TopicValues}
    \cup {NotARecord}

LongUniverse ==
  {Art(TRUE, NoKey, s[1], s[2], "absent", <<>>) :
     s \in {<<"map", "Positive">>, <<"map", "Negative">>, <<"map", "Neutral">>,
            <<"map", NoKey>>, <<"notmap", NoKey>>}}

TopicUniverse ==
  {Art(TRUE, NoKey, "map", "Neutral", t[1], t[2]) :
     t \in {<<"absent", <<>>>>, <<"list", <<"A">>>>, <<"list", <<"B">>>>,
            <<"list", <<"A", "B">>>>}}

\* articles with and without a title, with up to four topics
TitledUniverse ==
  {Art(TRUE, t, s[1], s[2], k[1], k[2]) :
     t \in {NoKey, "Quarterly results"},
     s \in {<<"map", "Positive">>, <<"map", "Negative">>, <<"absent", NoKey>>},
     k \in {<<"absent", <<>>>>, <<"list", <<"C">>>>, <<"list", <<"B", "A", "B">>>>,
            <<"list", <<"D", "C", "B", "A">>>>}}

SeqsUpTo(U, n) == UNION {[1..k -> U] : k \in 0..n}

Batches ==
  {[none |-> TRUE, items |-> <<>>]}
    \cup {[none |-> FALSE, items |-> s] :
            s \in SeqsUpTo(LongUniverse, MaxArticles)
                    \cup SeqsUpTo(RichUniverse, MaxRich)
                    \cup SeqsUpTo(TopicUniverse, MaxTopicArticles)
                    \cup SeqsUpTo(TitledUniverse, MaxTitled)}

HashOrders == {<<"A", "B", "C", "D", NonStr>>, <<NonStr, "D", "C", "B", "A">>}

AD(kind, truthy, dist, p, n, u, o) ==
  [kind |-> kind, truthy |-> truthy, dist |-> dist,
   Positive |-> p, Negative |-> n, Neutral |-> u, Other |-> o]

AnalysisInputs ==
  {AD("None", FALSE, "absent", 0, 0, 0, 0),
   AD("nonmap", FALSE, "absent", 0, 0, 0, 0),
   AD("nonmap", TRUE, "absent", 0, 0, 0, 0),
   AD("map", FALSE, "absent", 0, 0, 0, 0),
   AD("map", TRUE, "absent", 0, 0, 0, 0),
   AD("map", TRUE, "notmap", 0, 0, 0, 0),
   AD("map", TRUE, "nonnumeric", 0, 0, 0, 0)}
    \cup {AD("map", TRUE, "counts", p, n, u, o) :
            p \in 0..MaxCount, n \in 0..MaxCount, u \in 0..MaxCount, o \in 0..1}

Companies == {"Acme", "Initech"}

\* ------------------------------------------------------------ sanitize_text
\* a text argument: None, a str (a sequence of characters) or an int
Str(chars) == [kind |-> "str", chars |-> chars, n |-> 0]
NoneText == [kind |-> "None", chars |-> <<>>, n |-> 0]
IntText(n) == [kind |-> "int", chars |-> <<>>, n |-> n]

\* the characters matched by \s
Whitespace == {" ", "\t", "\n"}

\* not text
Falsy(text) ==
  \/ text.kind = "None"
  \/ text.kind = "str" /\ text.chars = <<>>
  \/ text.kind = "int" /\ text.n = 0

\* the rest of s after its leading whitespace
RECURSIVE SkipSpace(_)
SkipSpace(s) ==
  IF s /= <<>> /\ Head(s) \in Whitespace THEN SkipSpace(Tail(s)) ELSE s

\* re.sub(r'\s+', ' ', text): each maximal run of whitespace becomes ' '
RECURSIVE Collapse(_)
Collapse(s) ==
  IF s = <<>> THEN <<>>
  ELSE IF Head(s) \in Whitespace THEN <<" ">> \o Collapse(SkipSpace(Tail(s)))
  ELSE <<Head(s)>> \o Collapse(Tail(s))

\* s without its trailing whitespace
RECURSIVE DropTrailing(_)
DropTrailing(s) ==
  IF s /= <<>> /\ s[Len(s)] \in Whitespace
  THEN DropTrailing(SubSeq(s, 1, Len(s) - 1)) ELSE s

\* str.strip()
Strip(s) == DropTrailing(SkipSpace(s))

\* variant: the result is not stripped
sanitize_body_NoStrip(chars) == Collapse(chars)

\* re.sub(r'\s+', ' ', text).strip()
sanitize_body(chars) == Strip(Collapse(chars))

\* re.sub raises TypeError on an argument that is not a str
sanitize_text(text) ==
  IF Falsy(text) THEN [raised |-> FALSE, value |-> <<>>]
  ELSE IF text.kind /= "str" THEN [raised |-> TRUE, value |-> <<>>]
  ELSE [raised |-> FALSE, value |-> sanitize_body(text.chars)]

Chars == {"a", "b", " ", "\t", "\n"}

Texts ==
  {Str(c) : c \in UNION {[1..n -> Chars] : n \in 0..MaxText}}
    \cup {NoneText, IntText(0), IntText(7)}

\* ----------------------------------------------------------- scrape_article
(***************************************************************************)
(* A page is [fetch, h1, title_tag, container, p_len, div_len]: fetch is    *)
(* "ok", "get_raises" (requests.get raises) or "status_raises"              *)
(* (raise_for_status raises); h1 and title_tag say whether the document has *)
(* an h1 and a title element; container is "article", "div" (one of the     *)
(* div selectors matches) or "none"; p_len is the length of the joined      *)
(* paragraph texts of the body and div_len the length of the joined texts   *)
(* of its div elements with more than 100 characters (0 without such a      *)
(* div).                                                                    *)
(***************************************************************************)
\* if len(content) < 100
MinParagraphText == 100

\* if not content or len(content) < 50
MinContent == 50

\* title.text.strip() of the h1, else soup.title.text, else the fixed text
scrape_title(page) ==
  IF page.h1 THEN "h1" ELSE IF page.title_tag THEN "title" ELSE "No title found"

\* the length of content after the 'Ensure minimum content' step
scrape_content(page) ==
  IF page.p_len < MinParagraphText THEN page.div_len ELSE page.p_len

NoArticle == [raised |-> FALSE, none |-> TRUE, keys |-> {}, title |-> "", content |-> 0]

scrape_body(page) ==
  IF page.fetch /= "ok"
    THEN [raised |-> TRUE, none |-> TRUE, keys |-> {}, title |-> "", content |-> 0]
  ELSE IF scrape_content(page) = 0 \/ scrape_content(page) < MinContent
    THEN NoArticle
  ELSE [raised |-> FALSE, none |-> FALSE,
        keys |-> {"title", "content", "date", "source", "url"},
        title |-> scrape_title(page), content |-> scrape_content(page)]

\* except Exception: log and return None
CatchNone(r) == IF r.raised THEN NoArticle ELSE r

scrape_article(page) == CatchNone(scrape_body(page))

Pages ==
  [fetch : {"ok", "get_raises", "status_raises"}, h1 : BOOLEAN,
   title_tag : BOOLEAN, container : {"article", "div", "none"},
   p_len : {0, 52, 99, 100, 140}, div_len : {0, 130}]

NoPage ==
  [fetch |-> "get_raises", h1 |-> FALSE, title_tag |-> FALSE,
   container |-> "none", p_len |-> 0, div_len |-> 0]

\* ----------------------------------------------------------- summarize_text
(***************************************************************************)
(* A document is [kind, len, sentences, model, tokenizer]: kind is "None"   *)
(* or "str", len the number of characters, sentences the number of          *)
(* sentences nltk.sent_tokenize finds, model whether the summarization      *)
(* pipeline works ("ok") or raises, tokenizer whether sent_tokenize works   *)
(* or raises (LookupError without the punkt data, whose download at import  *)
(* is allowed to fail).                                                     *)
(***************************************************************************)
\* len(text) < 100
MinSummarized == 100

\* len(text) > 1024, and the chunk size
ChunkSize == 1024

\* chunks[:3]
MaxChunks == 3

\* sentences[:3]
MaxSentences == 3

\* not text or len(text) < 100
TooShort(doc) == doc.kind = "None" \/ doc.len = 0 \/ doc.len < MinSummarized

Unsummarized(doc) == [raised |-> FALSE, kind |-> "input", parts |-> 0, invoked |-> FALSE]

\* the try block: one summary, or the summaries of the first three of the
\* chunks [text[i:i+1024] for i in range(0, len(text), 1024)]
summarize_body(doc) ==
  IF doc.model = "raises"
    THEN [raised |-> TRUE, kind |-> "input", parts |-> 0, invoked |-> TRUE]
  ELSE IF doc.len > ChunkSize
    THEN [raised |-> FALSE, kind |-> "summary",
          parts |-> Min(MaxChunks, (doc.len + ChunkSize - 1) \div ChunkSize),
          invoked |-> TRUE]
  ELSE [raised |-> FALSE, kind |-> "summary", parts |-> 1, invoked |-> TRUE]

\* except Exception: ' '.join(sentences[:3]) if sentences else text; the
\* handler itself is not guarded
ExtractiveFallback(doc, r) ==
  IF ~r.raised THEN r
  ELSE IF doc.tokenizer = "raises"
    THEN [raised |-> TRUE, kind |-> "input", parts |-> 0, invoked |-> TRUE]
  ELSE IF doc.sentences = 0
    THEN [raised |-> FALSE, kind |-> "input", parts |-> 0, invoked |-> TRUE]
  ELSE [raised |-> FALSE, kind |-> "sentences",
        parts |-> Min(MaxSentences, doc.sentences), invoked |-> TRUE]

summarize_text(doc) ==
  IF TooShort(doc) THEN Unsummarized(doc)
  ELSE ExtractiveFallback(doc, summarize_body(doc))

NoDoc == [kind |-> "None", len |-> 0, sentences |-> 0, model |-> "ok", tokenizer |-> "ok"]

Docs ==
  {NoDoc}
    \cup {d \in [kind : {"str"}, len : {0, 14, 99, 100, 1024, 1025, 3000},
                 sentences : 0..4, model : {"ok", "raises"},
                 tokenizer : {"ok", "raises"}] :
            d.len = 0 => d.sentences = 0}

\* -------------------------------------------------------- analyze_sentiment
(***************************************************************************)
(* A sample is [empty, compound, vader, classifier, score, vader_again]:    *)
(* empty is 'not text'; compound is VADER's compound score of the text in   *)
(* hundredths; vader and vader_again say whether the analyzer of the try    *)
(* block and the one of the except block work ("ok") or raise; classifier   *)
(* is "raises" or the transformer's label, and score its score in           *)
(* hundredths.  Scores of results are in thousandths.  The values of        *)
(* Samples are off the exact boundaries, where the doubles of the code and  *)
(* exact arithmetic agree.                                                  *)
(***************************************************************************)
NeutralZero == [raised |-> FALSE, label |-> "Neutral", score |-> 0, invoked |-> FALSE]

\* if transformer_result['label'] == 'NEGATIVE': transformer_score = -transformer_score
transformer_score(sample) ==
  IF sample.classifier = "NEGATIVE" THEN 0 - sample.score ELSE sample.score

\* 0.4 * vader_scores['compound'] + 0.6 * transformer_score, in thousandths
final_score(sample) == 4 * sample.compound + 6 * transformer_score(sample)

\* final_score > 0.1, final_score < -0.1
hybrid_label(score) ==
  IF score > 100 THEN "Positive" ELSE IF score < -100 THEN "Negative" ELSE "Neutral"

\* variant: the fallback uses the thresholds of the hybrid score
vader_label_HybridThreshold(compound) ==
  IF compound > 10 THEN "Positive" ELSE IF compound < -10 THEN "Negative" ELSE "Neutral"

\* compound > 0.05, compound < -0.05
vader_label(compound) ==
  IF compound > 5 THEN "Positive" ELSE IF compound < -5 THEN "Negative" ELSE "Neutral"

\* the try block
hybrid_body(sample) ==
  IF sample.vader = "raises" \/ sample.classifier = "raises"
    THEN [raised |-> TRUE, label |-> "", score |-> 0, invoked |-> TRUE]
    ELSE [raised |-> FALSE, label |-> hybrid_label(final_score(sample)),
          score |-> final_score(sample), invoked |-> TRUE]

\* the inner try of the except block
vader_body(sample) ==
  IF sample.vader_again = "raises"
    THEN [raised |-> TRUE, label |-> "", score |-> 0, invoked |-> TRUE]
    ELSE [raised |-> FALSE, label |-> vader_label(sample.compound),
          score |-> 10 * sample.compound, invoked |-> TRUE]

\* except: return {"label": "Neutral", "score": 0.0}
CatchNeutralZero(r) ==
  IF r.raised THEN [raised |-> FALSE, label |-> "Neutral", score |-> 0, invoked |-> TRUE]
  ELSE r

\* except Exception: fall back to VADER alone
CatchVader(sample, r) == IF r.raised THEN CatchNeutralZero(vader_body(sample)) ELSE r

analyze_sentiment(sample) ==
  IF sample.empty THEN NeutralZero ELSE CatchVader(sample, hybrid_body(sample))

NoSample ==
  [empty |-> TRUE, compound |-> 0, vader |-> "ok", classifier |-> "raises",
   score |-> 0, vader_again |-> "ok"]

Samples ==
  {NoSample}
    \cup {x \in [empty : {FALSE}, compound : {-80, -25, -6, -5, 0, 5, 6, 25, 80},
                 vader : {"ok", "raises"},
                 classifier : {"raises", "POSITIVE", "NEGATIVE"},
                 score : {0, 50, 90, 100}, vader_again : {"ok", "raises"}] :
            (x.classifier = "raises") <=> (x.score = 0)}

\* -------------------------------------------------------- dashboard session
(***************************************************************************)
(* st.session_state of one browser session.  news_data, scraped_data and    *)
(* analysis_data hold the company the data is about, or None; summary_text  *)
(* is [kind, company], kind "" for the empty string, "analysis" for the     *)
(* text of line 389 and "unavailable" for the text of line 402; dual_audio  *)
(* is None (generated FALSE) or the result of generate_dual_audio with the  *)
(* text it was generated from.                                              *)
(***************************************************************************)
EmptySummary == [kind |-> "", company |-> ""]

NoAudio ==
  [generated |-> FALSE, text |-> EmptySummary, english |-> FALSE, hindi |-> FALSE]

\* lines 284-293
NewSession ==
  [news_data |-> NoneV, scraped_data |-> NoneV, analysis_data |-> NoneV,
   summary_text |-> EmptySummary, dual_audio |-> NoAudio]

SessionCompanies == {"Tesla", "Acme"}

\* variant: the summary is rewritten on every run
WriteSummary_Always(s, new_text) == [s EXCEPT !.summary_text = new_text]

\* if not st.session_state.summary_text: st.session_state.summary_text = ...
WriteSummary(s, new_text) ==
  IF s.summary_text = EmptySummary THEN [s EXCEPT !.summary_text = new_text] ELSE s

\* Step 1: Fetch News
StepFetch(s, button, company, ok) ==
  IF button = "fetch"
    THEN [s EXCEPT !.news_data = IF ok THEN company ELSE NoneV]
    ELSE s

\* Step 2: Scrape Content
StepScrape(s, button, ok) ==
  IF button = "scrape" /\ s.news_data /= NoneV
    THEN [s EXCEPT !.scraped_data = IF ok THEN s.news_data ELSE NoneV]
    ELSE s

\* Step 3, the call of analyze_articles
StepAnalyze(s, button, ok) ==
  IF button = "analyze" /\ s.scraped_data /= NoneV
    THEN [s EXCEPT !.analysis_data = IF ok THEN s.scraped_data ELSE NoneV]
    ELSE s

\* Step 3, 'Generate session summary text': reached when the else branch
\* runs and analysis_data is truthy
StepSummary(s, button) ==
  IF /\ button = "analyze" \/ s.analysis_data /= NoneV
     /\ ~(s.scraped_data = NoneV /\ button = "analyze")
     /\ s.analysis_data /= NoneV
    THEN WriteSummary(s, [kind |-> "analysis", company |-> s.analysis_data])
    ELSE s

\* Step 4: Generate Audio Summary
StepAudio(s, button, company, english, hindi) ==
  IF button = "summarize" /\ s.analysis_data /= NoneV
    THEN LET t == WriteSummary(s, [kind |-> "unavailable", company |-> company])
         IN [t EXCEPT !.dual_audio =
               [generated |-> TRUE, text |-> t.summary_text,
                english |-> english, hindi |-> hindi]]
    ELSE s

\* one run of the script: the widget values of the run, the outcome of the
\* API call of the pressed button, and the display call that raises, if any
\* (the run then ends early)
Run(s, button, company, ok, english, hindi, abort) ==
  LET s1 == StepFetch(s, button, company, ok)
      s2 == StepScrape(s1, button, ok)
      s3 == StepAnalyze(s2, button, ok)
      s4 == StepSummary(s3, button)
      s5 == StepAudio(s4, button, company, english, hindi)
  IN IF abort = "scrape_display" /\ s2.scraped_data /= NoneV THEN s2
     ELSE IF abort = "analysis_display" /\ s3.analysis_data /= NoneV THEN s3
     ELSE s5

\* ----------------------------------------------------------- state machine
VARIABLES pc, hashseed, articles, comparative, article1, article2, impact,
          analysis_data, company_name, overall, final_text,
          text, sanitized, resanitized,
          history, threads, frames,
          page, scraped, doc, summary, sample, sentiment,
          session

core_vars == <<pc, hashseed, articles, comparative, article1, article2, impact,
               analysis_data, company_name, overall, final_text>>

text_vars == <<text, sanitized, resanitized>>

aux_vars == <<history, threads, frames>>

pipe_vars == <<page, scraped, doc, summary, sample, sentiment>>

\* the arguments and results of the core functions
data_vars == <<hashseed, articles, comparative, article1, article2, impact,
               analysis_data, company_name, overall, final_text>>

vars == <<core_vars, text_vars, aux_vars, pipe_vars, session>>

NoBatch == [none |-> FALSE, items |-> <<>>]
NoData == AD("None", FALSE, "absent", 0, 0, 0, 0)
NotCalled == [raised |-> FALSE, value |-> ""]
NotCompared == [raised |-> FALSE, value |-> Default, pairs |-> <<>>]
NotSanitized == [raised |-> FALSE, value |-> <<>>]

Idle ==
  /\ comparative = NotCompared
  /\ impact = ""
  /\ overall = NotCalled
  /\ final_text = NotCalled

NoText ==
  /\ text = NoneText
  /\ sanitized = NotSanitized
  /\ resanitized = NotSanitized

NoScrape ==
  /\ page = NoPage
  /\ scraped = NoArticle

NoSummary ==
  /\ doc = NoDoc
  /\ summary = Unsummarized(NoDoc)

NoSentiment ==
  /\ sample = NoSample
  /\ sentiment = NeutralZero

NoPipe ==
  /\ NoScrape
  /\ NoSummary
  /\ NoSentiment

NoAux ==
  /\ history = <<>>
  /\ threads = <<>>
  /\ frames = <<>>
  /\ session = NewSession

InitCompare ==
  /\ pc = "compare_articles"
  /\ hashseed \in HashOrders
  /\ articles \in Batches
  /\ article1 = NotARecord /\ article2 = NotARecord
  /\ analysis_data = NoData /\ company_name = ""
  /\ Idle
  /\ NoText
  /\ NoPipe
  /\ NoAux

InitImpact ==
  /\ pc = "generate_impact_analysis"
  /\ hashseed = <<"A", "B", "C", "D", NonStr>>
  /\ articles = NoBatch
  /\ article1 \in RichUniverse /\ article2 \in RichUniverse
  /\ analysis_data = NoData /\ company_name = ""
  /\ Idle
  /\ NoText
  /\ NoPipe
  /\ NoAux

InitVerdict ==
  /\ pc \in {"get_overall_sentiment", "generate_final_sentiment_text"}
  /\ hashseed = <<"A", "B", "C", "D", NonStr>>
  /\ articles = NoBatch
  /\ article1 = NotARecord /\ article2 = NotARecord
  /\ analysis_data \in AnalysisInputs /\ company_name \in Companies
  /\ Idle
  /\ NoText
  /\ NoPipe
  /\ NoAux

InitSanitize ==
  /\ pc = "sanitize_text"
  /\ hashseed = <<"A", "B", "C", "D", NonStr>>
  /\ articles = NoBatch
  /\ article1 = NotARecord /\ article2 = NotARecord
  /\ analysis_data = NoData /\ company_name = ""
  /\ Idle
  /\ text \in Texts
  /\ sanitized = NotSanitized
  /\ resanitized = NotSanitized
  /\ NoAux
  /\ NoPipe

\* no core call is set up
NoCore ==
  /\ hashseed = <<"A", "B", "C", "D", NonStr>>
  /\ articles = NoBatch
  /\ article1 = NotARecord /\ article2 = NotARecord
  /\ analysis_data = NoData /\ company_name = ""
  /\ Idle

InitScrape ==
  /\ pc = "scrape_article"
  /\ NoCore
  /\ NoText
  /\ NoAux
  /\ page \in Pages
  /\ scraped = NoArticle
  /\ NoSummary
  /\ NoSentiment

InitSummarize ==
  /\ pc = "summarize_text"
  /\ NoCore
  /\ NoText
  /\ NoAux
  /\ NoScrape
  /\ doc \in Docs
  /\ summary = Unsummarized(NoDoc)
  /\ NoSentiment

InitSentiment ==
  /\ pc = "analyze_sentiment"
  /\ NoCore
  /\ NoText
  /\ NoAux
  /\ NoScrape
  /\ NoSummary
  /\ sample \in Samples
  /\ sentiment = NeutralZero

Init ==
  \/ InitCompare \/ InitImpact \/ InitVerdict \/ InitSanitize
  \/ InitScrape \/ InitSummarize \/ InitSentiment

\* variant: the call cuts each article's topic list to three in place
CallCompare_InPlace ==
  /\ pc = "compare_articles"
  /\ comparative' = compare_articles(articles, hashseed)
  /\ articles' =
       [articles EXCEPT !.items =
          [i \in DOMAIN articles.items |->
             [articles.items[i] EXCEPT !.topics = Top3(articles.items[i])]]]
  /\ pc' = "compared"
  /\ UNCHANGED <<hashseed, article1, article2, impact, analysis_data,
                 company_name, overall, final_text>>
  /\ UNCHANGED text_vars
  /\ UNCHANGED pipe_vars
  /\ UNCHANGED <<aux_vars, session>>

CallCompare ==
  /\ pc = "compare_articles"
  /\ comparative' = compare_articles(articles, hashseed)
  /\ pc' = "compared"
  /\ UNCHANGED <<hashseed, articles, article1, article2, impact, analysis_data,
                 company_name, overall, final_text>>
  /\ UNCHANGED text_vars
  /\ UNCHANGED pipe_vars
  /\ UNCHANGED <<aux_vars, session>>

CallImpact ==
  /\ pc = "generate_impact_analysis"
  /\ impact' = generate_impact_analysis(article1, article2)
  /\ pc' = "analyzed"
  /\ UNCHANGED <<hashseed, articles, comparative, article1, article2,
                 analysis_data, company_name, overall, final_text>>
  /\ UNCHANGED text_vars
  /\ UNCHANGED pipe_vars
  /\ UNCHANGED <<aux_vars, session>>

CallOverall ==
  /\ pc = "get_overall_sentiment"
  /\ overall' = get_overall_sentiment(analysis_data)
  /\ pc' = "classified"
  /\ UNCHANGED <<hashseed, articles, comparative, article1, article2, impact,
                 analysis_data, company_name, final_text>>
  /\ UNCHANGED text_vars
  /\ UNCHANGED pipe_vars
  /\ UNCHANGED <<aux_vars, session>>

CallFinal ==
  /\ pc = "generate_final_sentiment_text"
  /\ final_text' = generate_final_sentiment_text(company_name, analysis_data)
  /\ pc' = "narrated"
  /\ UNCHANGED <<hashseed, articles, comparative, article1, article2, impact,
                 analysis_data, company_name, overall>>
  /\ UNCHANGED text_vars
  /\ UNCHANGED pipe_vars
  /\ UNCHANGED <<aux_vars, session>>

CallSanitize ==
  /\ pc = "sanitize_text"
  /\ sanitized' = sanitize_text(text)
  /\ pc' = "sanitized"
  /\ UNCHANGED <<hashseed, articles, comparative, article1, article2, impact,
                 analysis_data, company_name, overall, final_text, text, resanitized>>
  /\ UNCHANGED <<aux_vars, session>>
  /\ UNCHANGED pipe_vars

\* sanitize_text applied to its own result
CallSanitizeAgain ==
  /\ pc = "sanitized" /\ ~sanitized.raised
  /\ resanitized' = sanitize_text(Str(sanitized.value))
  /\ pc' = "resanitized"
  /\ UNCHANGED <<hashseed, articles, comparative, article1, article2, impact,
                 analysis_data, company_name, overall, final_text, text, sanitized>>
  /\ UNCHANGED <<aux_vars, session>>
  /\ UNCHANGED pipe_vars

CallScrape ==
  /\ pc = "scrape_article"
  /\ scraped' = scrape_article(page)
  /\ pc' = "scraped"
  /\ UNCHANGED <<data_vars, text_vars, aux_vars, session, page, doc, summary, sample,
                 sentiment>>

CallSummarize ==
  /\ pc = "summarize_text"
  /\ summary' = summarize_text(doc)
  /\ pc' = "summarized"
  /\ UNCHANGED <<data_vars, text_vars, aux_vars, session, page, scraped, doc, sample,
                 sentiment>>

CallSentiment ==
  /\ pc = "analyze_sentiment"
  /\ sentiment' = analyze_sentiment(sample)
  /\ pc' = "scored"
  /\ UNCHANGED <<data_vars, text_vars, aux_vars, session, page, scraped, doc, summary,
                 sample>>

Next ==
  \/ CallCompare \/ CallImpact \/ CallOverall \/ CallFinal
  \/ CallSanitize \/ CallSanitizeAgain
  \/ CallScrape \/ CallSummarize \/ CallSentiment

Spec == Init /\ [][Next]_vars

\* ------------------------------------------------- repeated invocations
\* the batches of the repeated and of the concurrent requests
RequestBatches ==
  LET X == Art(TRUE, NoKey, "map", "Positive", "list", <<"D", "C", "B", "A">>)
      Y == Art(TRUE, "Quarterly results", "map", "Negative", "list", <<"C">>)
      Z == Art(TRUE, NoKey, "map", "Positive", "notiter", <<>>)
      W == Art(TRUE, NoKey, "map", "Negative", "list", <<NonStr>>)
  IN {[none |-> TRUE, items |-> <<>>]}
       \cup {[none |-> FALSE, items |-> i] :
               i \in {<<>>, <<X>>, <<X, Y>>, <<Y, X>>, <<X, Z>>, <<X, W>>}}

\* variant: the string hashes change from one call to the next
SeedOfCall_Rehashed(n) ==
  IF n % 2 = 0 THEN hashseed ELSE CHOOSE h \in HashOrders : h /= hashseed

\* the iteration order of the sets built by the n-th call of the process:
\* str hashes are fixed when the interpreter starts
SeedOfCall(n) == hashseed

InitRepeat ==
  /\ pc = "repeat"
  /\ hashseed \in HashOrders
  /\ articles = NoBatch
  /\ article1 = NotARecord /\ article2 = NotARecord
  /\ analysis_data = NoData /\ company_name = ""
  /\ Idle
  /\ NoText
  /\ NoPipe
  /\ NoAux

\* one more invocation of compare_articles in the same process
Invoke ==
  /\ pc = "repeat"
  /\ Len(history) < MaxCalls
  /\ \E batch \in RequestBatches :
       LET result == compare_articles(batch, SeedOfCall(Len(history)))
       IN /\ articles' = batch
          /\ comparative' = result
          /\ history' = Append(history, [input |-> batch, output |-> result])
  /\ UNCHANGED <<pc, hashseed, article1, article2, impact, analysis_data,
                 company_name, overall, final_text, threads, frames, session>>
  /\ UNCHANGED text_vars
  /\ UNCHANGED pipe_vars

NextRepeat == Invoke

SpecRepeat == InitRepeat /\ [][NextRepeat]_vars

\* ------------------------------------------------- concurrent requests
Workers == 1..MaxWorkers

\* variant: the local variables live in one shared module-level place
Scratch_Shared(t) == 1

\* the frame that holds the local variables of worker t's call
Scratch(t) == t

EmptyFrame ==
  [articles |-> <<>>,
   sentiment_counts |-> Default.SentimentDistribution,
   all_topics |-> <<>>,
   common_topics |-> {},
   dp |-> <<>>,
   coverage_differences |-> <<>>,
   unique_topics |-> <<>>]

\* the comparative result as generate_final_sentiment_text receives it
AsAnalysisData(v) ==
  AD("map", TRUE, "counts", v.SentimentDistribution.Positive,
     v.SentimentDistribution.Negative, v.SentimentDistribution.Neutral, 0)

InitConcurrent ==
  /\ pc = "serve"
  /\ hashseed \in HashOrders
  /\ articles = NoBatch
  /\ article1 = NotARecord /\ article2 = NotARecord
  /\ analysis_data = NoData /\ company_name = ""
  /\ Idle
  /\ NoText
  /\ NoPipe
  /\ history = <<>>
  /\ session = NewSession
  /\ \E reqs \in [Workers -> RequestBatches] :
       threads = [t \in Workers |->
                    [pc |-> "start", results |-> reqs[t], company |-> "Acme",
                     comparative |-> NotCompared, final_sentiment |-> NotCalled]]
  /\ frames = [f \in Workers |-> EmptyFrame]

Goto(t, label) == threads' = [threads EXCEPT ![t].pc = label]

Store(t, name, value) == frames' = [frames EXCEPT ![Scratch(t)][name] = value]

Local(t) == frames[Scratch(t)]

ServeFrame ==
  UNCHANGED <<core_vars, text_vars, pipe_vars, history, session>>

\* the call binds its parameter and tests 'if not articles'
T_Enter(t) ==
  /\ threads[t].pc = "start"
  /\ Store(t, "articles", threads[t].results.items)
  /\ IF threads[t].results.none \/ threads[t].results.items = <<>>
       THEN threads' = [threads EXCEPT ![t].pc = "final", ![t].comparative = NotCompared]
       ELSE Goto(t, "distribution")
  /\ ServeFrame

\* sentiment_counts = {...}
T_Distribution(t) ==
  /\ threads[t].pc = "distribution"
  /\ IF \E i \in DOMAIN Local(t).articles : label_raises(Local(t).articles[i])
       THEN Goto(t, "except") /\ UNCHANGED frames
       ELSE /\ Store(t, "sentiment_counts", sentiment_distribution(Local(t).articles))
            /\ Goto(t, "topics")
  /\ ServeFrame

\* all_topics and common_topics
T_Topics(t) ==
  /\ threads[t].pc = "topics"
  /\ IF \E i \in DOMAIN Local(t).articles : Local(t).articles[i].tkind = "notiter"
       THEN Goto(t, "except") /\ UNCHANGED frames
       ELSE /\ frames' = [frames EXCEPT
                 ![Scratch(t)].all_topics = all_topics(Local(t).articles),
                 ![Scratch(t)].common_topics = common_topics(all_topics(Local(t).articles))]
            /\ Goto(t, "pairs")
  /\ ServeFrame

\* the two loops that fill coverage_differences
T_Pairs(t) ==
  /\ threads[t].pc = "pairs"
  /\ LET arts == Local(t).articles
         dp == DivergentPairs(arts)
     IN IF \E k \in DOMAIN dp :
             join_raises(At(arts, dp[k][1])) \/ join_raises(At(arts, dp[k][2]))
          THEN Goto(t, "except") /\ UNCHANGED frames
          ELSE /\ frames' = [frames EXCEPT
                    ![Scratch(t)].dp = dp,
                    ![Scratch(t)].coverage_differences =
                       [k \in DOMAIN dp |-> CoverageEntry(arts, dp[k])]]
               /\ Goto(t, "unique")
  /\ ServeFrame

\* the loop that fills unique_topics
T_Unique(t) ==
  /\ threads[t].pc = "unique"
  /\ Store(t, "unique_topics",
           [k \in DOMAIN Local(t).all_topics |->
              ListOf(UniqueOf(Local(t).all_topics[k], Local(t).common_topics), hashseed)])
  /\ Goto(t, "return")
  /\ ServeFrame

\* return {...}
T_Return(t) ==
  /\ threads[t].pc = "return"
  /\ threads' = [threads EXCEPT
       ![t].pc = "final",
       ![t].comparative =
          [raised |-> FALSE,
           value |->
             [SentimentDistribution |-> Local(t).sentiment_counts,
              CoverageDifferences |-> LimitDifferences(Local(t).coverage_differences),
              CommonTopics |-> ListOf(Local(t).common_topics, hashseed),
              UniqueTopics |-> Local(t).unique_topics],
           pairs |-> LimitDifferences(Local(t).dp)]]
  /\ UNCHANGED frames
  /\ ServeFrame

\* except Exception: return the default structure
T_Except(t) ==
  /\ threads[t].pc = "except"
  /\ threads' = [threads EXCEPT ![t].pc = "final", ![t].comparative = NotCompared]
  /\ UNCHANGED frames
  /\ ServeFrame

\* final_sentiment = generate_final_sentiment_text(company, comparative)
T_Final(t) ==
  /\ threads[t].pc = "final"
  /\ threads' = [threads EXCEPT
       ![t].pc = "done",
       ![t].final_sentiment =
          generate_final_sentiment_text(threads[t].company,
                                        AsAnalysisData(threads[t].comparative.value))]
  /\ UNCHANGED frames
  /\ ServeFrame

NextConcurrent ==
  \E t \in Workers :
    \/ T_Enter(t) \/ T_Distribution(t) \/ T_Topics(t) \/ T_Pairs(t)
    \/ T_Unique(t) \/ T_Return(t) \/ T_Except(t) \/ T_Final(t)

SpecConcurrent == InitConcurrent /\ [][NextConcurrent]_vars

\* ------------------------------------------------- dashboard session runs
InitSession ==
  /\ pc = "session"
  /\ NoCore
  /\ NoText
  /\ NoPipe
  /\ history = <<>>
  /\ threads = <<>>
  /\ frames = <<>>
  /\ session = NewSession

\* the user presses a button or changes a widget: the script runs again
Rerun ==
  /\ pc = "session"
  /\ \E button \in {"none", "fetch", "scrape", "analyze", "summarize"} :
       \E company \in SessionCompanies :
       \E ok \in BOOLEAN : \E english \in BOOLEAN : \E hindi \in BOOLEAN :
         \E abort \in {"none", "scrape_display", "analysis_display"} :
           session' = Run(session, button, company, ok, english, hindi, abort)
  /\ UNCHANGED <<core_vars, text_vars, pipe_vars, history, threads, frames>>

NextSession == Rerun

SpecSession == InitSession /\ [][NextSession]_vars

\* ------------------------------------------------------------------ claims
items == articles.items
Compared == pc = "compared"

\* the call went through the try block without an exception
Processed == Compared /\ ~articles.none /\ items /= <<>> /\ ~body_raises(items)

Coverage == comparative.value.CoverageDifferences

\* the label of a record as the claims read it: "missing" when the record
\* has no sentiment, no label, or the label None
ReadLabel(a) ==
  IF a.sent /= "map" \/ a.label \in {NoKey, NoneV} THEN "missing" ELSE a.label

\* all (i, j) with j in {i+1, i+2}, j < N (0-based)
WindowSet(n) ==
  {p \in (0..(n - 1)) \X (0..(n - 1)) : p[2] \in {p[1] + 1, p[1] + 2}}

DivergentSet(arts) ==
  {p \in WindowSet(Len(arts)) : ReadLabel(At(arts, p[1])) /= ReadLabel(At(arts, p[2]))}

Precedes(q, p) == q[1] < p[1] \/ (q[1] = p[1] /\ q[2] < p[2])

\* C1: for every input batch the returned 'Coverage Differences' list has at
\* most 5 entries.
C1_AtMostFiveDifferences == Compared => Len(Coverage) <= 5

\* more than 5 divergent window pairs, and 5 entries returned
C1_Witness ==
  /\ Processed
  /\ Cardinality(DivergentSet(items)) > 5
  /\ Len(Coverage) = 5

\* C2: on a batch that is processed without an internal exception, the
\* reported pairs are exactly the window pairs (i, j), j in {i+1, i+2}, j < N,
\* whose labels differ (a missing label differs from any present label, two
\* missing labels do not differ) and that have fewer than 5 divergent window
\* pairs before them in the order by i then j; they are listed in that order,
\* one entry per pair.
C2_WindowedFirstFive ==
  Processed =>
    LET D == DivergentSet(items)
        reported == comparative.pairs
    IN /\ Len(Coverage) = Len(reported)
       /\ SetOf(reported) =
            {p \in D : Cardinality({q \in D : Precedes(q, p)}) < 5}
       /\ \A k \in 1..(Len(reported) - 1) : Precedes(reported[k], reported[k + 1])
       /\ \A k \in DOMAIN reported :
            Coverage[k] = CoverageEntry(items, reported[k])

\* a divergent pair dropped by the cut, a reported one, and a window pair
\* with equal labels that is not reported
C2_Witness ==
  /\ Processed
  /\ \E p \in DivergentSet(items) : p \notin SetOf(comparative.pairs)
  /\ \E p \in WindowSet(Len(items)) : p \notin DivergentSet(items)
  /\ \E i \in DOMAIN items : \E j \in DOMAIN items :
       ReadLabel(items[i]) = "missing" /\ ReadLabel(items[j]) = "missing"
         /\ j \in {i + 1, i + 2}

\* the articles whose sentiment.label is exactly key
WithLabel(arts, key) ==
  {i \in DOMAIN arts : arts[i].sent = "map" /\ arts[i].label = key}

\* C3: on a batch that is processed without an internal exception the
\* distribution has exactly the keys Positive, Negative, Neutral, each count
\* is the number of articles whose sentiment.label is that key, the counts
\* sum to at most len(articles), and to exactly len(articles) if and only if
\* every article's label is one of the three.
C3_DistributionCounts ==
  Processed =>
    LET d == comparative.value.SentimentDistribution
        sum == d.Positive + d.Negative + d.Neutral
        Three == {"Positive", "Negative", "Neutral"}
    IN /\ DOMAIN d = Three
       /\ \A key \in Three : d[key] = Cardinality(WithLabel(items, key))
       /\ sum <= Len(items)
       /\ (sum = Len(items)) <=>
            (\A i \in DOMAIN items :
               items[i].sent = "map" /\ items[i].label \in Three)

\* counted and uncounted articles in one batch
C3_Witness ==
  /\ Processed
  /\ WithLabel(items, "Positive") /= {}
  /\ WithLabel(items, "Neutral") /= {}
  /\ \E i \in DOMAIN items : ReadLabel(items[i]) = "missing"

\* the topic sets of the articles that carry a 'topics' field, in input order
TopicSets(arts) ==
  LET pos == {i \in DOMAIN arts : arts[i].tkind /= "absent"}
      nth(k) == CHOOSE i \in pos : Cardinality({h \in pos : h < i}) = k - 1
  IN [k \in 1..Cardinality(pos) |-> SetOf(arts[nth(k)].topics)]

Occurrences(S, t) == Cardinality({k \in DOMAIN S : t \in S[k]})

\* ceil(3 * n / 10)
Ceil30(n) == (3 * n + 9) \div 10

InAll(S) == {t \in UNION SetOf(S) : \A k \in DOMAIN S : t \in S[k]}

\* C4: on a batch that is processed without an internal exception, with S the
\* topic sets of the topic-bearing articles and n = |S|, CommonTopics is the
\* strict intersection of S when that is non-empty, and otherwise the set of
\* topics that occur in at least max(2, ceil(0.3 * n)) of the sets of S; the
\* code's test count >= max(2, 0.3 * n) selects the same topics as the ceil
\* form.
C4_CommonTopics ==
  Processed =>
    LET S == TopicSets(items)
        n == Len(S)
        common == comparative.value.CommonTopics
    IN /\ Len(common) = Cardinality(SetOf(common))
       /\ SetOf(common) =
            IF InAll(S) /= {} THEN InAll(S)
            ELSE {t \in UNION SetOf(S) : Occurrences(S, t) >= Max(2, Ceil30(n))}
       \* the code's threshold test against the ceil form, for every count
       \* and up to MaxSets topic sets (evaluated where one set is present)
       /\ n = 1 =>
            \A m \in 1..MaxSets : \A c \in 0..m :
              MeetsThreshold(c, m) <=> c >= Max(2, Ceil30(m))

\* the fallback with a threshold above 2: a topic in two of seven sets is
\* left out, another topic is kept
C4_Witness ==
  /\ Processed
  /\ LET S == TopicSets(items)
     IN /\ Len(S) >= 7
        /\ InAll(S) = {}
        /\ \E t \in UNION SetOf(S) :
             Occurrences(S, t) = 2 /\ t \notin SetOf(comparative.value.CommonTopics)
        /\ comparative.value.CommonTopics /= <<>>

\* C5: on a batch that is processed without an internal exception, 'Unique
\* Topics' has one entry per topic-bearing article, and the k-th entry is, as
\* a set, Topics[k] minus CommonTopics: disjoint from CommonTopics, and its
\* union with CommonTopics contains Topics[k].
C5_UniqueTopics ==
  Processed =>
    LET S == TopicSets(items)
        common == SetOf(comparative.value.CommonTopics)
        unique == comparative.value.UniqueTopics
    IN /\ Len(unique) = Len(S)
       /\ \A k \in DOMAIN S :
            /\ SetOf(unique[k]) \cap common = {}
            /\ S[k] \subseteq SetOf(unique[k]) \cup common
            /\ SetOf(unique[k]) = S[k] \ common

\* common topics from the frequency fallback, and an article that has both a
\* common and a unique topic
C5_Witness ==
  /\ Processed
  /\ LET S == TopicSets(items)
         common == SetOf(comparative.value.CommonTopics)
     IN /\ InAll(S) = {}
        /\ common /= {}
        /\ \E k \in DOMAIN S :
             S[k] \cap common /= {} /\ comparative.value.UniqueTopics[k] /= <<>>

\* a mapping whose 'Sentiment Distribution' holds counts
HasCounts(ad) == ad.kind = "map" /\ ad.truthy /\ ad.dist = "counts"

\* C6: for every distribution with total = Positive + Negative + Neutral > 0
\* get_overall_sentiment returns, by first match: 'Very Positive' if
\* 5*Positive > 3*total, 'Moderately Positive' if 5*Positive > 2*total, 'Very
\* Negative' if 5*Negative > 3*total, 'Moderately Negative' if 5*Negative >
\* 2*total, otherwise 'Mixed or Neutral'; ratios of exactly 0.6 or 0.4 fall to
\* the next branch.
C6_OverallThresholds ==
  LET P == analysis_data.Positive
      N == analysis_data.Negative
      T == analysis_data.Positive + analysis_data.Negative + analysis_data.Neutral
  IN (pc = "classified" /\ HasCounts(analysis_data) /\ analysis_data.Other = 0 /\ T > 0)
       => /\ ~overall.raised
          /\ overall.value =
               IF 5 * P > 3 * T THEN "Very Positive"
               ELSE IF 5 * P > 2 * T THEN "Moderately Positive"
               ELSE IF 5 * N > 3 * T THEN "Very Negative"
               ELSE IF 5 * N > 2 * T THEN "Moderately Negative"
               ELSE "Mixed or Neutral"

\* Positive/total is exactly 0.4 and Negative/total exactly 0.6: neither
\* 'Moderately Positive' nor 'Very Negative' is taken
C6_Witness ==
  /\ pc = "classified"
  /\ HasCounts(analysis_data) /\ analysis_data.Other = 0
  /\ analysis_data.Positive = 2 /\ analysis_data.Negative = 3 /\ analysis_data.Neutral = 0
  /\ overall.value = "Moderately Negative"

\* the label 'Unknown' stands for a missing sentiment or label
Resolved(a) == IF a.sent = "absent" \/ a.label = NoKey THEN "Unknown" ELSE a.label

\* the record has a sentiment that resolves to a label string
HasStringLabel(a) == a.ismap /\ a.sent /= "notmap" /\ a.label /= NoneV

CounterbalanceText(l) ==
  CASE l = "Positive" ->
         "The positive sentiment in one article is counterbalanced by a neutral perspective in the other."
    [] l = "Negative" ->
         "The negative sentiment in one article is counterbalanced by a neutral perspective in the other."
    [] l = "Unknown" ->
         "The unknown sentiment in one article is counterbalanced by a neutral perspective in the other."

\* C7: generate_impact_analysis picks its narrative by first match over the
\* resolved labels (l1, l2): l1 = l2 the 'share similar sentiment' text;
\* (Positive, Negative) the market-uncertainty text; (Negative, Positive) the
\* complex-picture text; otherwise, if either label is Neutral, the
\* counterbalance text with the other label lower-cased; otherwise the
\* 'different aspects' text.  Swapping a Positive/Negative pair changes the
\* narrative.
C7_ImpactDecisionTable ==
  (pc = "analyzed" /\ HasStringLabel(article1) /\ HasStringLabel(article2)) =>
    LET l1 == Resolved(article1)
        l2 == Resolved(article2)
    IN /\ impact =
            IF l1 = l2 THEN ImpactSimilar
            ELSE IF l1 = "Positive" /\ l2 = "Negative" THEN ImpactUncertainty
            ELSE IF l1 = "Negative" /\ l2 = "Positive" THEN ImpactComplex
            ELSE IF l1 = "Neutral" THEN CounterbalanceText(l2)
            ELSE IF l2 = "Neutral" THEN CounterbalanceText(l1)
            ELSE ImpactDifferent
       /\ {l1, l2} = {"Positive", "Negative"} =>
            generate_impact_analysis(article2, article1) /= impact

\* the Negative-then-Positive pair
C7_Witness ==
  /\ pc = "analyzed"
  /\ HasStringLabel(article1) /\ HasStringLabel(article2)
  /\ Resolved(article1) = "Negative" /\ Resolved(article2) = "Positive"
  /\ impact = ImpactComplex

Verdicts ==
  {"Very Positive", "Moderately Positive", "Very Negative", "Moderately Negative",
   "Mixed or Neutral"}

TemplateOf(company) ==
  ("Very Positive" :> TextVeryPositive(company))
    @@ ("Moderately Positive" :> TextModeratelyPositive(company))
    @@ ("Very Negative" :> TextVeryNegative(company))
    @@ ("Moderately Negative" :> TextModeratelyNegative(company))
    @@ ("Mixed or Neutral" :> TextMixed(company))

\* C8: generate_final_sentiment_text returns 'No reliable sentiment data
\* available for {company}.' whenever the counts sum to 0; for a total > 0 it
\* returns the template of the verdict get_overall_sentiment gives for the
\* same distribution, with the company name substituted; distinct verdicts
\* have distinct templates.
C8_FinalTextByVerdict ==
  (pc = "narrated" /\ HasCounts(analysis_data)) =>
    LET total == analysis_data.Positive + analysis_data.Negative
                   + analysis_data.Neutral + analysis_data.Other
        verdict == get_overall_sentiment(analysis_data).value
        T == TemplateOf(company_name)
    IN /\ ~final_text.raised
       /\ total = 0 =>
            final_text.value =
              "No reliable sentiment data available for " \o company_name \o "."
       /\ total > 0 => verdict \in Verdicts /\ final_text.value = T[verdict]
       /\ \A v \in Verdicts : \A w \in Verdicts : v /= w => T[v] /= T[w]
       /\ \A v \in Verdicts : T[v] /= TextNoData(company_name)

\* the all-zero distribution
C8_Witness ==
  /\ pc = "narrated"
  /\ HasCounts(analysis_data)
  /\ analysis_data.Positive = 0 /\ analysis_data.Negative = 0
  /\ analysis_data.Neutral = 0 /\ analysis_data.Other = 0
  /\ final_text.value = TextNoData(company_name)

\* a record that is not a mapping, a sentiment that is not a mapping, topics
\* that are not iterable
Malformed(a) == ~a.ismap \/ a.sent = "notmap" \/ a.tkind = "notiter"

\* C9: compare_articles never raises; for an empty or None batch and for any
\* batch in which processing hits an internal exception it returns exactly
\* the zero-valued default structure.
C9_DefaultOnFailure ==
  Compared =>
    /\ ~comparative.raised
    /\ (\/ articles.none
        \/ items = <<>>
        \/ \E i \in DOMAIN items : Malformed(items[i])
        \/ body_raises(items))
         => comparative.value =
              [SentimentDistribution |-> [Positive |-> 0, Negative |-> 0, Neutral |-> 0],
               CoverageDifferences |-> <<>>,
               CommonTopics |-> <<>>,
               UniqueTopics |-> <<>>]

\* one malformed record next to a well-formed Positive article with topics
C9_Witness ==
  /\ Compared
  /\ Len(items) = 2
  /\ Malformed(items[2])
  /\ ~Malformed(items[1]) /\ ReadLabel(items[1]) = "Positive"
  /\ items[1].topics = <<"A", "B">>
  /\ comparative.value = Default

\* C10: get_overall_sentiment and generate_final_sentiment_text never raise,
\* whatever analysis_data is; generate_final_sentiment_text returns the 'No
\* reliable sentiment data' text, one of the five verdict templates or the
\* 'inconclusive' text; get_overall_sentiment returns 'Neutral' when
\* analysis_data is None, empty, not a mapping, has no 'Sentiment
\* Distribution', or has a distribution it cannot sum.
C10_VerdictNeverRaises ==
  /\ pc = "classified" =>
       /\ ~overall.raised
       /\ ~HasCounts(analysis_data) => overall.value = "Neutral"
  /\ pc = "narrated" =>
       /\ ~final_text.raised
       /\ final_text.value \in
            {TextNoData(company_name), TextInconclusive(company_name)}
              \cup {TemplateOf(company_name)[v] : v \in Verdicts}

\* a distribution with non-numeric values, narrated as inconclusive
C10_Witness ==
  /\ pc = "narrated"
  /\ analysis_data.kind = "map" /\ analysis_data.dist = "nonnumeric"
  /\ final_text.value = TextInconclusive(company_name)

\* sum of all the values of the distribution
SumOfCounts(ad) == ad.Positive + ad.Negative + ad.Neutral + ad.Other

\* C11 as stated: the value returned by get_overall_sentiment is a member of
\* the OverallVerdict enumeration for every distribution, the all-zero one
\* included.
C11_AlwaysInEnumeration ==
  (pc = "classified" /\ HasCounts(analysis_data)) => overall.value \in Verdicts

\* C11 as amended: for every distribution with total > 0 the value returned
\* by get_overall_sentiment is a member of the OverallVerdict enumeration; for
\* a distribution whose counts sum to 0 it is 'Neutral', which is not a member.
C11_InEnumerationWhenCounted ==
  (pc = "classified" /\ HasCounts(analysis_data)) =>
    /\ ~overall.raised
    /\ SumOfCounts(analysis_data) > 0 => overall.value \in Verdicts
    /\ SumOfCounts(analysis_data) = 0 =>
         overall.value = "Neutral" /\ overall.value \notin Verdicts

\* the all-zero distribution, classified
C11_Witness ==
  /\ pc = "classified"
  /\ HasCounts(analysis_data)
  /\ SumOfCounts(analysis_data) = 0
  /\ overall.value = "Neutral"

\* the label with a missing sentiment, a missing label and the label None
\* all read as 'Unknown'
AsUnknown(a) ==
  IF a.sent = "absent" \/ a.label \in {NoKey, NoneV} THEN "Unknown" ELSE a.label

\* the record is a mapping whose sentiment is absent or a mapping
HasOptionalSentiment(a) == a.ismap /\ a.sent /= "notmap"

TableNarrative(l1, l2) ==
  IF l1 = l2 THEN ImpactSimilar
  ELSE IF l1 = "Positive" /\ l2 = "Negative" THEN ImpactUncertainty
  ELSE IF l1 = "Negative" /\ l2 = "Positive" THEN ImpactComplex
  ELSE IF l1 = "Neutral" THEN CounterbalanceText(l2)
  ELSE IF l2 = "Neutral" THEN CounterbalanceText(l1)
  ELSE ImpactDifferent

\* C12: generate_impact_analysis returns the narrative the decision table
\* gives for the two labels, a missing sentiment, a missing label and the
\* label None being treated as 'Unknown'; no pair yields a string outside
\* the table.
C12_ImpactTotalOverTable ==
  (pc = "analyzed" /\ HasOptionalSentiment(article1) /\ HasOptionalSentiment(article2))
    => /\ impact = TableNarrative(AsUnknown(article1), AsUnknown(article2))
       /\ impact /= ImpactNotAvailable

\* C18 as stated: no distribution with total > 0 has positive_ratio > 0.4 and
\* negative_ratio > 0.4 together.
C18_NeverBothAboveLow ==
  (pc = "classified" /\ HasCounts(analysis_data) /\ SumOfCounts(analysis_data) > 0) =>
    ~(/\ 5 * analysis_data.Positive > 2 * SumOfCounts(analysis_data)
      /\ 5 * analysis_data.Negative > 2 * SumOfCounts(analysis_data))

\* C18 as amended: no distribution with total > 0 has one ratio above 0.6
\* and the other above 0.4; both ratios can be above 0.4 together (and then
\* both are at most 0.6), and there the order of the branches decides: the
\* verdict is 'Moderately Positive'.
C18_OrderDecidesOnlyBetweenModerates ==
  (pc = "classified" /\ HasCounts(analysis_data) /\ SumOfCounts(analysis_data) > 0) =>
    LET P == analysis_data.Positive
        N == analysis_data.Negative
        T == SumOfCounts(analysis_data)
    IN /\ ~(5 * P > 3 * T /\ 5 * N > 2 * T)
       /\ ~(5 * N > 3 * T /\ 5 * P > 2 * T)
       /\ (5 * P > 2 * T /\ 5 * N > 2 * T) => overall.value = "Moderately Positive"

\* one Positive and one Negative article: both ratios are 0.5
C18_Witness ==
  /\ pc = "classified"
  /\ HasCounts(analysis_data)
  /\ analysis_data.Positive = 1 /\ analysis_data.Negative = 1
  /\ analysis_data.Neutral = 0 /\ analysis_data.Other = 0
  /\ overall.value = "Moderately Positive"

\* the topics of an article as a set, empty without a 'topics' field
TopicsOf(a) == IF a.tkind = "absent" THEN {} ELSE SetOf(a.topics)

\* the input positions (1-based) of the articles with a 'topics' field
Bearing(arts) == {i \in DOMAIN arts : arts[i].tkind /= "absent"}

\* the input position of the k-th article with a 'topics' field
NthBearing(arts, k) ==
  CHOOSE i \in Bearing(arts) : Cardinality({h \in Bearing(arts) : h < i}) = k - 1

\* C13 as stated: for every input index i, entry i of 'Unique Topics' is the
\* unique-topic list of input article i, also when some articles have no
\* 'topics' field.
C13_AlignedWithInput ==
  Processed =>
    LET unique == comparative.value.UniqueTopics
        common == SetOf(comparative.value.CommonTopics)
    IN \A i \in DOMAIN items :
         /\ i \in DOMAIN unique
         /\ SetOf(unique[i]) = TopicsOf(items[i]) \ common

\* C13 as amended: 'Unique Topics' has one entry per article that carries a
\* 'topics' field; entry k is the unique-topic list of the k-th such article
\* in input order, so entry i belongs to input article i exactly for the
\* articles that have no article without a 'topics' field before them.
C13_AlignedWithTopicBearing ==
  Processed =>
    LET unique == comparative.value.UniqueTopics
        common == SetOf(comparative.value.CommonTopics)
    IN /\ Len(unique) = Cardinality(Bearing(items))
       /\ \A k \in DOMAIN unique :
            SetOf(unique[k]) = TopicsOf(items[NthBearing(items, k)]) \ common
       /\ \A k \in DOMAIN unique :
            (\A h \in 1..k : h \in Bearing(items)) <=> NthBearing(items, k) = k

\* an article without topics comes first: entry 1 is the list of article 2
C13_Witness ==
  /\ Processed
  /\ Len(items) = 3
  /\ items[1].tkind = "absent" /\ items[2].tkind = "list" /\ items[3].tkind = "list"
  /\ Len(comparative.value.UniqueTopics) = 2
  /\ comparative.value.UniqueTopics[1] /= <<>>
  /\ SetOf(comparative.value.UniqueTopics[1]) = SetOf(items[2].topics)

\* C14 as stated: each entry of 'Unique Topics' lists the article's
\* non-common topics in the relative order of the article's input 'topics'.
C14_InputOrderKept ==
  Processed =>
    \A k \in DOMAIN comparative.value.UniqueTopics :
      LET given == items[NthBearing(items, k)].topics
          entry == comparative.value.UniqueTopics[k]
      IN \A x \in DOMAIN entry : \A y \in DOMAIN entry :
           x < y =>
             \E g \in DOMAIN given : \E h \in DOMAIN given :
               g < h /\ given[g] = entry[x] /\ given[h] = entry[y]

\* the title of the article at 1-based position pos
TitleText(a, pos) == IF a.title = NoKey THEN "Article " \o ToString(pos) ELSE a.title

\* the label as rendered: 'Unknown' without a sentiment or a label
LabelText(a) ==
  IF a.sent = "absent" \/ a.label = NoKey THEN "Unknown"
  ELSE IF a.label = NoneV THEN "None" ELSE a.label

\* the first min(3, len(topics)) topics joined by ', ', or 'the subject'
SubjectText(a) ==
  LET t == IF a.tkind = "absent" THEN <<>> ELSE a.topics
  IN CASE Len(t) = 0 -> "the subject"
       [] Len(t) = 1 -> t[1]
       [] Len(t) = 2 -> t[1] \o ", " \o t[2]
       [] OTHER      -> t[1] \o ", " \o t[2] \o ", " \o t[3]

Rendered(a, pos) ==
  "Article '" \o TitleText(a, pos) \o "' has " \o LabelText(a)
    \o " sentiment about " \o SubjectText(a)

\* C19: on a batch that is processed without an internal exception, the
\* 'Comparison' text of the entry for the pair (i, j) names, for article i
\* and then for article j, the title (or 'Article {index+1}' with the 1-based
\* position in the full batch), the sentiment label (or 'Unknown' when
\* absent) and the first min(3, len(topics)) topics in input order joined by
\* ', ' (or 'the subject' without topics).
C19_ComparisonText ==
  Processed =>
    \A k \in DOMAIN Coverage :
      LET p == comparative.pairs[k]
      IN /\ p[1] < p[2]
         /\ Coverage[k].Comparison =
              Rendered(items[p[1] + 1], p[1] + 1) \o ", while "
                \o Rendered(items[p[2] + 1], p[2] + 1) \o "."

\* a titled article with four topics compared with an untitled article
\* without sentiment and without topics
C19_Witness ==
  /\ Processed
  /\ Len(items) = 2
  /\ items[1].title = "Quarterly results" /\ Len(items[1].topics) = 4
  /\ items[2].title = NoKey /\ items[2].sent = "absent" /\ items[2].tkind = "absent"
  /\ Len(Coverage) = 1
  /\ Coverage[1].Comparison =
       "Article 'Quarterly results' has Positive sentiment about D, C, B, while Article 'Article 2' has Unknown sentiment about the subject."

\* the maximal runs of non-whitespace characters of s, in order
RECURSIVE Words(_, _)
Words(s, word) ==
  IF s = <<>> THEN (IF word = <<>> THEN <<>> ELSE <<word>>)
  ELSE IF Head(s) \in Whitespace
       THEN (IF word = <<>> THEN <<>> ELSE <<word>>) \o Words(Tail(s), <<>>)
       ELSE Words(Tail(s), Append(word, Head(s)))

\* the words joined by one space
RECURSIVE Spaced(_)
Spaced(ws) ==
  IF ws = <<>> THEN <<>>
  ELSE IF Len(ws) = 1 THEN ws[1]
  ELSE ws[1] \o <<" ">> \o Spaced(Tail(ws))

\* C20: sanitize_text replaces every run of whitespace by one space and
\* strips leading and trailing whitespace (the result is the text's words
\* joined by single spaces); None and the empty string give ''; applying it
\* to its own result gives the same result; the result never contains two
\* adjacent whitespace characters.
C20_SanitizeText ==
  /\ (pc \in {"sanitized", "resanitized"} /\ text.kind \in {"None", "str"}) =>
       LET r == sanitized.value
       IN /\ ~sanitized.raised
          /\ r = Spaced(Words(text.chars, <<>>))
          /\ (text = NoneText \/ text = Str(<<>>)) => r = <<>>
          /\ \A i \in 1..(Len(r) - 1) :
               ~(r[i] \in Whitespace /\ r[i + 1] \in Whitespace)
          /\ r /= <<>> => r[1] \notin Whitespace /\ r[Len(r)] \notin Whitespace
  /\ pc = "resanitized" => resanitized = sanitized

\* a text with leading, trailing and repeated mixed whitespace, sanitized twice
C20_Witness ==
  /\ pc = "resanitized"
  /\ text = Str(<<"\t", "a", " ", "\n">>)
  /\ sanitized.value = <<"a">>
  /\ resanitized.value = <<"a">>

\* C16: compare_articles, generate_impact_analysis, get_overall_sentiment and
\* generate_final_sentiment_text leave their arguments unchanged: across every
\* call, on the normal and on the exception path, the article batch, the two
\* article records, the comparative data and the company name keep their
\* values.
C16_ArgumentsUnchanged ==
  [][/\ articles' = articles
     /\ article1' = article1 /\ article2' = article2
     /\ analysis_data' = analysis_data /\ company_name' = company_name]_vars

\* after a call that rendered a pair from an article with four topics (of
\* which the text shows three) the article still has its four topics
C16_Witness ==
  /\ Processed
  /\ Len(Coverage) = 1
  /\ \E i \in DOMAIN items : items[i].topics = <<"D", "C", "B", "A">>

C17_ConcurrentAsAlone ==
  \A t \in DOMAIN threads :
    threads[t].pc = "done" =>
      LET alone == compare_articles(threads[t].results, hashseed)
      IN /\ threads[t].comparative = alone
         /\ threads[t].final_sentiment =
              generate_final_sentiment_text(threads[t].company,
                                            AsAnalysisData(alone.value))

\* two workers finished different requests, one on the normal path with an
\* emitted pair, the other through the except handler
C17_Witness ==
  /\ DOMAIN threads = Workers
  /\ \A t \in Workers : threads[t].pc = "done"
  /\ threads[1].results /= threads[2].results
  /\ threads[1].comparative.value.CoverageDifferences /= <<>>
  /\ body_raises(threads[2].results.items)
  /\ threads[2].comparative.value = Default

\* C24 as stated: on a batch that is processed without an internal exception
\* no emitted coverage difference carries the 'Both articles share similar
\* sentiment' narrative, also for a pair of an article without a label and an
\* article with the literal label 'Unknown'.
C24_NoSimilarImpactEmitted ==
  Processed =>
    \A k \in DOMAIN Coverage : Coverage[k].Impact /= ImpactSimilar

\* the frequency fallback ran: there are topic sets and no topic is in all
FallbackUsed(S) == S /= <<>> /\ InAll(S) = {}

\* C25: on a batch that is processed without an internal exception: when the
\* frequency fallback is used no topic of CommonTopics occurs in all topic
\* sets, and with one or two topic-bearing articles the fallback yields an
\* empty CommonTopics; when exactly one article carries topics and its topic
\* set is non-empty, CommonTopics is that whole set and the article's Unique
\* Topics entry is empty.
C25_FallbackAndSingleton ==
  Processed =>
    LET S == TopicSets(items)
        common == SetOf(comparative.value.CommonTopics)
    IN /\ FallbackUsed(S) =>
            /\ \A t \in common : \E k \in DOMAIN S : t \notin S[k]
            /\ Len(S) \in {1, 2} => common = {}
       /\ (Len(S) = 1 /\ S[1] /= {}) =>
            /\ common = S[1]
            /\ comparative.value.UniqueTopics = << <<>> >>

\* two topic-bearing articles with disjoint non-empty topic sets: the
\* fallback ran and found nothing
C25_Witness ==
  /\ Processed
  /\ LET S == TopicSets(items)
     IN /\ Len(S) = 2
        /\ S[1] /= {} /\ S[2] /= {}
        /\ FallbackUsed(S)
        /\ comparative.value.CommonTopics = <<>>
        /\ comparative.value.UniqueTopics[1] /= <<>>

\* C26: on a batch that is processed without an internal exception the
\* length of 'Unique Topics' is the number of articles with a 'topics' field
\* and its entries follow those articles' input order; an article without a
\* 'topics' field has no entry, is counted in the sentiment distribution like
\* any other article, and takes part in the coverage-difference window, where
\* it is rendered with 'the subject'.
C26_TopiclessStillCompared ==
  Processed =>
    LET unique == comparative.value.UniqueTopics
        common == SetOf(comparative.value.CommonTopics)
        d == comparative.value.SentimentDistribution
        D == DivergentSet(items)
    IN /\ Len(unique) = Cardinality(Bearing(items))
       /\ \A k \in DOMAIN unique : \A h \in DOMAIN unique :
            k < h => NthBearing(items, k) < NthBearing(items, h)
       /\ \A k \in DOMAIN unique :
            SetOf(unique[k]) \subseteq TopicsOf(items[NthBearing(items, k)])
       /\ \A key \in {"Positive", "Negative", "Neutral"} :
            d[key] = Cardinality(WithLabel(items, key))
       /\ \A p \in D :
            Cardinality({q \in D : Precedes(q, p)}) < 5 => p \in SetOf(comparative.pairs)
       /\ \A k \in DOMAIN Coverage :
            LET p == comparative.pairs[k]
            IN /\ items[p[1] + 1].tkind = "absent" =>
                    Coverage[k].Comparison =
                      "Article '" \o TitleText(items[p[1] + 1], p[1] + 1) \o "' has "
                        \o LabelText(items[p[1] + 1]) \o " sentiment about the subject"
                        \o ", while " \o Rendered(items[p[2] + 1], p[2] + 1) \o "."
               /\ items[p[2] + 1].tkind = "absent" =>
                    Coverage[k].Comparison =
                      Rendered(items[p[1] + 1], p[1] + 1) \o ", while Article '"
                        \o TitleText(items[p[2] + 1], p[2] + 1) \o "' has "
                        \o LabelText(items[p[2] + 1])
                        \o " sentiment about the subject."

\* an article without topics before an article with topics: no entry for it,
\* but it is counted and it is compared with its neighbour
C26_Witness ==
  /\ Processed
  /\ Len(items) = 2
  /\ items[1].tkind = "absent" /\ items[2].tkind = "list" /\ items[2].topics /= <<>>
  /\ items[1].label = "Positive" /\ items[2].label = "Negative"
  /\ Len(comparative.value.UniqueTopics) = 1
  /\ comparative.value.SentimentDistribution.Positive = 1
  /\ comparative.pairs = << <<0, 1>> >>

\* C21 as stated: scrape_article never raises; for a successfully fetched
\* page that has an h1 heading and an article element containing paragraph
\* text it returns a record (not None) with the keys title, content, date and
\* source; when the HTTP request raises it returns None.
C21_ScrapeReturnsRecord ==
  pc = "scraped" =>
    /\ ~scraped.raised
    /\ (page.fetch = "ok" /\ page.h1 /\ page.container = "article" /\ page.p_len > 0) =>
         /\ ~scraped.none
         /\ {"title", "content", "date", "source"} \subseteq scraped.keys
    /\ page.fetch /= "ok" => scraped.none

\* C22 as stated: summarize_text returns its input unchanged (None stays
\* None, '' stays '') for every text that is empty or shorter than 100
\* characters, without invoking the summarization model; for longer text a
\* failure of the model never propagates and the result is the first three
\* sentences.
C22_SummarizeFallsBack ==
  pc = "summarized" =>
    /\ (doc.kind = "None" \/ doc.len < 100) =>
         ~summary.raised /\ summary.kind = "input" /\ ~summary.invoked
    /\ (doc.kind = "str" /\ doc.len >= 100 /\ doc.model = "raises") =>
         /\ ~summary.raised
         /\ doc.sentences > 0 =>
              summary.kind = "sentences" /\ summary.parts = Min(3, doc.sentences)

\* the transformer path of analyze_sentiment failed
HybridFailed(x) == ~x.empty /\ (x.vader = "raises" \/ x.classifier = "raises")

\* C23: analyze_sentiment never raises and its label is one of Positive,
\* Negative, Neutral; empty text gives {Neutral, 0.0} without invoking a
\* model; when the transformer path fails the label comes from VADER's
\* compound score alone (Positive above 0.05, Negative below -0.05, Neutral
\* otherwise); when that fails too the result is {Neutral, 0.0}.
C23_SentimentNeverRaises ==
  pc = "scored" =>
    /\ ~sentiment.raised
    /\ sentiment.label \in {"Positive", "Negative", "Neutral"}
    /\ sample.empty =>
         sentiment.label = "Neutral" /\ sentiment.score = 0 /\ ~sentiment.invoked
    /\ (HybridFailed(sample) /\ sample.vader_again = "ok") =>
         /\ sample.compound > 5 => sentiment.label = "Positive"
         /\ sample.compound < -5 => sentiment.label = "Negative"
         /\ sample.compound \in -5..5 => sentiment.label = "Neutral"
         /\ sentiment.score = 10 * sample.compound
    /\ (HybridFailed(sample) /\ sample.vader_again = "raises") =>
         sentiment.label = "Neutral" /\ sentiment.score = 0

\* the classifier raised and VADER alone found a compound score of 0.06
C23_Witness ==
  /\ pc = "scored"
  /\ sample.classifier = "raises" /\ sample.vader = "ok" /\ sample.vader_again = "ok"
  /\ sample.compound = 6
  /\ sentiment.label = "Positive"

\* C27: in a dashboard session summary_text is written only while it is
\* empty: once it is non-empty no run of the script changes it, whatever
\* button is pressed and whatever the calls return, and the audio is
\* generated from it; so after a later analysis has replaced analysis_data
\* the summary and the audio still describe the earlier analysis.
C27_SummaryWrittenOnce ==
  /\ [][session.summary_text /= EmptySummary =>
          session'.summary_text = session.summary_text]_vars
  /\ [](session.dual_audio.generated =>
          /\ session.dual_audio.text = session.summary_text
          /\ session.summary_text /= EmptySummary)

\* analysis_data is about another company than the summary and the audio
C27_Witness ==
  /\ pc = "session"
  /\ session.summary_text = [kind |-> "analysis", company |-> "Tesla"]
  /\ session.analysis_data = "Acme"
  /\ session.dual_audio.generated
  /\ session.dual_audio.text = session.summary_text

====
